---- MODULE Spec2Model ----
(***************************************************************************)
(* Feature registry (core/di/featureRegistry.ts) and feature manager       *)
(* (core/di/featureManager.ts) of the React Native demo, as a state        *)
(* machine over the JavaScript job model: every async function runs        *)
(* synchronously up to its first await, every continuation is a promise    *)
(* reaction job, and reaction jobs run one at a time in FIFO order.        *)
(***************************************************************************)
EXTENDS Integers, Sequences, FiniteSets, TLC

\* ---------------------------------------------------------------- bounds
\* External ensureFeatureLoaded / preloadFeatures calls issued in one run.
MaxCalls == 2
\* Nested ensureFeatureLoaded calls the call stack has room for (the
\* engine's limit is some thousands of frames).
MaxDepth == 3
\* Effect runs of the component that uses useFeatureService.
MaxEffects == 2
\* Invocations of one feature module's register function.
MaxRegisters == 2
\* preloadFeatures calls the application issues in one run.
MaxPreloads == 1

\* ------------------------------------------------------------- universe
\* Feature names a caller may pass; 'auth', 'user' and 'chat' are the
\* application's features, imported by App.tsx.
Names == {"auth", "user", "chat"}

\* The descriptors the application's feature index files register.
AuthMetadata == [name |-> "auth", dependencies |-> << >>, loader |-> 1,
                 tags |-> <<"core", "security">>]
UserMetadata == [name |-> "user", dependencies |-> <<"auth">>, loader |-> 1,
                 tags |-> <<"core", "profile">>]
ChatMetadata == [name |-> "chat", dependencies |-> <<"user">>, loader |-> 1,
                 tags |-> <<"messaging", "realtime">>]
Descriptors == {AuthMetadata, UserMetadata, ChatMetadata}

\* The application as App.tsx builds it has a fourth feature, 'admin'.
AdminMetadata == [name |-> "admin", dependencies |-> <<"auth">>, loader |-> 1,
                  tags |-> <<"admin", "management">>]
AppNames == {"auth", "user", "admin", "chat"}
AppFeatures == <<AuthMetadata, UserMetadata, AdminMetadata, ChatMetadata>>

\* App.tsx imports the feature index files in this order; each import
\* registers the feature.  A build may leave a feature out or import it
\* late, but the ones it imports are evaluated in this order.
ImportOrder == <<"auth", "user", "admin", "chat">>

\* Name lists handed to preloadFeatures.
PreloadLists == {<<"user", "chat">>}

\* The list the application preloads after login.
AppPreloadLists == {<<"user", "admin", "chat">>}

\* What one loader() invocation may settle to: a module whose register
\* succeeds, a module whose register throws, a value without a callable
\* register, or a rejection (the dynamic import failed).
LoaderOutcomes == {"module", "moduleThrows", "malformed", "reject"}

\* A promise may be rejected with any value: "rejectValue" is a loader
\* that rejects with a value that is not an Error instance.
HookLoaderOutcomes == {"module", "reject", "rejectValue"}

VARIABLES
    features,         \* FeatureRegistry.features: Map name -> metadata, in insertion order
    loadedFeatures,   \* featureManager: Set<string>
    loadingFeatures,  \* featureManager: Map<string, Promise<void>>, 0 = no entry
    promises,         \* every promise created so far, by id
    microtasks,       \* the job queue (FIFO)
    container,        \* service keys bound in the DI container
    isRegistered,     \* the feature modules' isRegistered flags
    loaderCalls,      \* instrumentation: loader() invocations per name
    registerCalls,    \* instrumentation: module.register invocations per name
    registerLog,      \* instrumentation: names in order of completed register(container)
    bindCalls,        \* instrumentation: container.bind calls per service key
    calls,            \* promises returned to external callers, in call order
    userTurn,         \* caller code is running although jobs are queued
    lastCall,         \* instrumentation: the registry / introspection call of the last step, with its result
    props,            \* the component using useFeatureService: mounted, featureName, serviceType
    hookState,        \* useFeatureService: the useState value
    effects           \* useFeatureService: the effect runs, each with its isMounted

\* What the callers of the manager observe and the React side.
probeVars == <<lastCall>>
hookVars == <<props, hookState, effects>>

vars == <<features, loadedFeatures, loadingFeatures, promises, microtasks,
          container, isRegistered, loaderCalls, registerCalls, registerLog, bindCalls, calls,
          userTurn, probeVars, hookVars>>

\* ---------------------------------------------------------------- values
\* A settled promise's value: undefined, a feature module, or an Error.
\* origin is the promise whose code created the value (object identity).
NoVal == [kind |-> "undefined", feature |-> "", available |-> << >>, origin |-> 0]
MkVal(kind, feature, available, origin) ==
    [kind |-> kind, feature |-> feature, available |-> available, origin |-> origin]

\* A promise reaction: the continuation k to run with the outcome.
MkReaction(k, name, p, i) == [k |-> k, name |-> name, p |-> p, i |-> i]

\* ------------------------------------------------------------- registry
RECURSIVE RegistryFind(_, _)
RegistryFind(fs, name) ==
    IF fs = << >> THEN 0
    ELSE IF Head(fs).name = name THEN 1
    ELSE LET r == RegistryFind(Tail(fs), name) IN IF r = 0 THEN 0 ELSE r + 1

ImportIndex(name) == CHOOSE i \in 1..Len(ImportOrder) : ImportOrder[i] = name

\* Mutant: the descriptor is stored without the has() check.
RegisterOverwrite(fs, md) ==
    IF RegistryFind(fs, md.name) = 0 THEN Append(fs, md)
    ELSE [fs EXCEPT ![RegistryFind(fs, md.name)] = md]

\* FeatureRegistry.register(metadata) on the map fs: a name that is
\* present is skipped with a warning.
Register(fs, md) ==
    IF RegistryFind(fs, md.name) # 0 THEN fs ELSE Append(fs, md)

RegistryHas(name) == RegistryFind(features, name) # 0
RegistryGet(name) == features[RegistryFind(features, name)]
RegistryGetAll == [i \in 1..Len(features) |-> features[i].name]

\* ------------------------------------------------------------- promises
\* Where the RangeError of an exhausted call stack surfaces: in the body
\* of the innermost ensureFeatureLoaded call or in that of the loadFeature
\* call it makes.  Either way an async function's body throws, so the
\* promise of that call is rejected.
OverflowSites == {"ensure", "load"}

\* The mutable state the manager's code works on, as one record, with the
\* call stack: depth counts the ensureFeatureLoaded calls that are active.
St == [loadedFeatures |-> loadedFeatures, loadingFeatures |-> loadingFeatures,
       promises |-> promises, microtasks |-> microtasks, container |-> container,
       isRegistered |-> isRegistered, loaderCalls |-> loaderCalls,
       registerCalls |-> registerCalls, registerLog |-> registerLog,
       bindCalls |-> bindCalls,
       depth |-> 0, overflowIn |-> "ensure"]

Commit(S) ==
    /\ loadedFeatures' = S.loadedFeatures
    /\ loadingFeatures' = S.loadingFeatures
    /\ promises' = S.promises
    /\ microtasks' = S.microtasks
    /\ container' = S.container
    /\ isRegistered' = S.isRegistered
    /\ loaderCalls' = S.loaderCalls
    /\ registerCalls' = S.registerCalls
    /\ registerLog' = S.registerLog
    /\ bindCalls' = S.bindCalls

\* A promise: kind is the code that created it ("ensure": the promise an
\* ensureFeatureLoaded call returns, "load": loadFeature's, "loader": the
\* feature loader's, "all": Promise.all's, "preload": preloadFeatures'),
\* ep the load promise of the episode it belongs to, how the path the
\* ensureFeatureLoaded call took, parent the promise of the loadFeature or
\* preloadFeatures call that made the call (0: a caller outside the
\* manager), rs its pending reactions in order.
MkPromise(kind, name, ep, how, st) ==
    [kind |-> kind, name |-> name, ep |-> ep, how |-> how, parent |-> 0, st |-> st,
     val |-> NoVal, rs |-> << >>, cnt |-> 0]

NewPromise(S, rec) == [S EXCEPT !.promises = Append(@, rec)]
LastId(S) == Len(S.promises)

MkJob(r, ok, val) == [r |-> r, ok |-> ok, val |-> val]
Enqueue(S, job) == [S EXCEPT !.microtasks = Append(@, job)]

\* Settle promise p: a no-op when p is already settled; otherwise one
\* reaction job per registered reaction, in registration order.
Settle(S, p, ok, val) ==
    IF S.promises[p].st # "pending" THEN S
    ELSE LET rs == S.promises[p].rs
         IN [S EXCEPT !.promises[p].st = IF ok THEN "fulfilled" ELSE "rejected",
                      !.promises[p].val = val,
                      !.promises[p].rs = << >>,
                      !.microtasks = @ \o [i \in 1..Len(rs) |-> MkJob(rs[i], ok, val)]]

\* p.then(r) / await p: r waits on a pending p, or is queued at once.
Then(S, p, r) ==
    IF S.promises[p].st = "pending"
    THEN [S EXCEPT !.promises[p].rs = Append(@, r)]
    ELSE Enqueue(S, MkJob(r, S.promises[p].st = "fulfilled", S.promises[p].val))

\* Mutant: the in-flight promise is not returned; the call resolves at once.
ResolveWithPromiseEarly(S, outer, thenable) == Settle(S, outer, TRUE, NoVal)

\* An async function returns the promise `thenable`: its own promise
\* `outer` follows it through a NewPromiseResolveThenableJob.
ResolveWithPromise(S, outer, thenable) ==
    Enqueue(S, MkJob(MkReaction("thenable", "", outer, thenable), TRUE, NoVal))

RECURSIVE ThenAll(_, _, _, _)
ThenAll(S, ps, a, i) ==
    IF i > Len(ps) THEN S
    ELSE ThenAll(Then(S, ps[i], MkReaction("allElem", "", a, i)), ps, a, i + 1)

\* Promise.all(ps): fulfilled at once for an empty list, otherwise one
\* element reaction per input promise.
PromiseAll(S, ps) ==
    LET S1 == NewPromise(S, [MkPromise("all", "", 0, "",
                                IF Len(ps) = 0 THEN "fulfilled" ELSE "pending")
                             EXCEPT !.cnt = Len(ps)])
        a == LastId(S1)
    IN [S |-> ThenAll(S1, ps, a, 1), p |-> a]

\* ------------------------------------------------------ feature modules
\* container.bind(key): one more binding for the key.
ContainerBind(S, key) ==
    [S EXCEPT !.container = @ \cup {key}, !.bindCalls[key] = @ + 1]

\* Mutant: register binds without looking at the flag or the container.
ModuleRegisterUnguarded(S, name) ==
    LET S1 == [S EXCEPT !.registerCalls[name] = @ + 1,
                        !.registerLog = Append(@, name)]
    IN [ContainerBind(S1, name) EXCEPT !.isRegistered = @ \cup {name}]

\* <feature>.module.ts register(container): guarded by the module's
\* isRegistered flag and by container.isBound.
ModuleRegister(S, name) ==
    LET S1 == [S EXCEPT !.registerCalls[name] = @ + 1,
                        !.registerLog = Append(@, name)]
    IN IF name \in S.isRegistered THEN S1
       ELSE [(IF name \in S1.container THEN S1 ELSE ContainerBind(S1, name))
             EXCEPT !.isRegistered = @ \cup {name}]

\* ------------------------------------------------------ feature manager
\* `await metadata.loader()`: the loader is invoked and loadFeature
\* suspends on the promise it returns.
InvokeLoader(S, name, lp, loader) ==
    LET S1 == NewPromise([S EXCEPT !.loaderCalls[name] = @ + 1],
                         MkPromise("loader", name, lp, "", "pending"))
    IN Then(S1, LastId(S1), MkReaction("loadAfterLoader", name, lp, loader))

\* Mutant: the already-loaded fast path is missing.
IsLoadedNever(S, name) == FALSE

\* loadedFeatures.has(featureName)
IsLoaded(S, name) == name \in S.loadedFeatures

\* Mutant: the in-flight check is missing.
JoinTargetNone(S, name) == 0

\* Mutant: an in-flight load of 'auth' is not seen.
JoinTargetNotShared(S, name) == IF name = "auth" THEN 0 ELSE S.loadingFeatures[name]

\* loadingFeatures.has(featureName) ? loadingFeatures.get(featureName) : none
JoinTarget(S, name) == S.loadingFeatures[name]

\* Mutant: the catch block throws a new Error wrapping the original.
CatchWrap(error) == [error EXCEPT !.kind = "wrapped"]

\* catch (error) { ...; throw error; }
CatchRethrow(error) == error

\* Mutant: the finally block is missing.
FinallyNever(S, name, ok) == S

\* Mutant: the entry is deleted in the catch block only.
FinallyOnFailure(S, name, ok) ==
    IF ok THEN S ELSE [S EXCEPT !.loadingFeatures[name] = 0]

\* Mutant: the entry is deleted after a successful load only.
FinallyOnSuccess(S, name, ok) ==
    IF ok THEN [S EXCEPT !.loadingFeatures[name] = 0] ELSE S

\* finally { loadingFeatures.delete(featureName); }
Finally(S, name, ok) == [S EXCEPT !.loadingFeatures[name] = 0]

RECURSIVE EnsureSync(_, _, _), LoadSync(_, _), EnsureAll(_, _, _)

\* The call stack is exhausted.
StackOverflow(S, site) == S.depth >= MaxDepth /\ S.overflowIn = site

\* RangeError: Maximum call stack size exceeded, thrown in the call of p.
StackError(name, p) == MkVal("stackOverflow", name, << >>, p)

\* Mutant: the in-flight entry is written before loadFeature is called.
EnsureSyncEntryFirst(S, name, parent) ==
    IF IsLoaded(S, name) \/ JoinTarget(S, name) # 0
    THEN LET S1 == NewPromise(S, [MkPromise("ensure", name, JoinTarget(S, name),
                                            "join", "pending")
                                  EXCEPT !.parent = parent])
         IN [S |-> ResolveWithPromise(S1, LastId(S1), JoinTarget(S, name)),
             p |-> LastId(S1)]
    ELSE LET S1 == NewPromise(S, [MkPromise("ensure", name, 0, "start", "pending")
                                  EXCEPT !.parent = parent])
             outer == LastId(S1)
             L == LoadSync([S1 EXCEPT !.loadingFeatures[name] = outer + 1], name)
             S2 == [L.S EXCEPT !.promises[outer].ep = L.p]
         IN [S |-> Then(S2, L.p, MkReaction("ensureAwait", name, outer, L.p)),
             p |-> outer]

\* Mutant: the load promise is not stored in loadingFeatures.
EnsureSyncNoEntry(S, name, parent) ==
    IF IsLoaded(S, name)
    THEN LET S1 == NewPromise(S, [MkPromise("ensure", name, 0, "fast", "fulfilled")
                                  EXCEPT !.parent = parent])
         IN [S |-> S1, p |-> LastId(S1)]
    ELSE IF JoinTarget(S, name) # 0
    THEN LET S1 == NewPromise(S, [MkPromise("ensure", name, JoinTarget(S, name),
                                            "join", "pending")
                                  EXCEPT !.parent = parent])
         IN [S |-> ResolveWithPromise(S1, LastId(S1), JoinTarget(S, name)),
             p |-> LastId(S1)]
    ELSE LET S1 == NewPromise(S, [MkPromise("ensure", name, 0, "start", "pending")
                                  EXCEPT !.parent = parent])
             outer == LastId(S1)
             L == LoadSync(S1, name)
             S2 == [L.S EXCEPT !.promises[outer].ep = L.p]
         IN [S |-> Then(S2, L.p, MkReaction("ensureAwait", name, outer, L.p)),
             p |-> outer]

\* ensureFeatureLoaded(featureName), called by parent, up to its first
\* suspension; p is the promise the call returns.
EnsureSync(S, name, parent) ==
    IF StackOverflow(S, "ensure")
    THEN LET S1 == NewPromise(S, [MkPromise("ensure", name, 0, "overflow", "rejected")
                                  EXCEPT !.parent = parent,
                                         !.val = StackError(name, Len(S.promises) + 1)])
         IN [S |-> S1, p |-> LastId(S1)]
    ELSE IF IsLoaded(S, name)
    THEN LET S1 == NewPromise(S, [MkPromise("ensure", name, 0, "fast", "fulfilled")
                                  EXCEPT !.parent = parent])
         IN [S |-> S1, p |-> LastId(S1)]
    ELSE IF JoinTarget(S, name) # 0
    THEN LET S1 == NewPromise(S, [MkPromise("ensure", name, JoinTarget(S, name),
                                            "join", "pending")
                                  EXCEPT !.parent = parent])
         IN [S |-> ResolveWithPromise(S1, LastId(S1), JoinTarget(S, name)),
             p |-> LastId(S1)]
    ELSE LET S1 == NewPromise(S, [MkPromise("ensure", name, 0, "start", "pending")
                                  EXCEPT !.parent = parent])
             outer == LastId(S1)
             L == LoadSync(S1, name)
             S2 == [L.S EXCEPT !.loadingFeatures[name] = L.p,
                               !.promises[outer].ep = L.p]
         IN [S |-> Then(S2, L.p, MkReaction("ensureAwait", name, outer, L.p)),
             p |-> outer]

\* names.map(ensureFeatureLoaded)
EnsureAll(S, names, parent) ==
    IF names = << >> THEN [S |-> S, ps |-> << >>]
    ELSE LET e == EnsureSync(S, Head(names), parent)
             rest == EnsureAll(e.S, Tail(names), parent)
         IN [S |-> rest.S, ps |-> <<e.p>> \o rest.ps]

\* Mutant: the loader is invoked without waiting for the dependencies.
LoadDependenciesNoWait(S, name, lp, md) ==
    InvokeLoader(EnsureAll(S, md.dependencies, lp).S, name, lp, md.loader)

\* Mutant: the dependencies are loaded one after the other; only the
\* first is asked for before the wait.
LoadDependenciesInTurn(S, name, lp, md) ==
    LET E == EnsureAll([S EXCEPT !.depth = @ + 1], <<Head(md.dependencies)>>, lp)
        A == PromiseAll([E.S EXCEPT !.depth = S.depth], E.ps)
    IN Then(A.S, A.p, MkReaction("loadAfterDeps", name, lp, md.loader))

\* await Promise.all(metadata.dependencies.map(ensureFeatureLoaded)):
\* the calls are made one stack level deeper.
LoadDependencies(S, name, lp, md) ==
    LET E == EnsureAll([S EXCEPT !.depth = @ + 1], md.dependencies, lp)
        A == PromiseAll([E.S EXCEPT !.depth = S.depth], E.ps)
    IN Then(A.S, A.p, MkReaction("loadAfterDeps", name, lp, md.loader))

\* available.length > 0 ? available.join(', ') : 'none'
AvailableText(available) == IF Len(available) > 0 THEN available ELSE <<"none">>

\* Mutant: the error message does not list the registered names.
NotFoundErrorNoList(name, lp) == MkVal("notFound", name, << >>, lp)

\* The unknown-feature Error of loadFeature.
NotFoundError(name, lp) == MkVal("notFound", name, AvailableText(RegistryGetAll), lp)

\* loadFeature(featureName) up to its first suspension; p is its promise.
LoadSync(S, name) ==
    LET S0 == NewPromise(S, MkPromise("load", name, 0, "", "pending"))
        lp == LastId(S0)
    IN IF StackOverflow(S, "load")
       THEN [S |-> Settle(S0, lp, FALSE, StackError(name, lp)), p |-> lp]
       ELSE IF ~RegistryHas(name)
       THEN [S |-> Settle(S0, lp, FALSE, NotFoundError(name, lp)), p |-> lp]
       ELSE LET md == RegistryGet(name)
            IN IF Len(md.dependencies) > 0
               THEN [S |-> LoadDependencies(S0, name, lp, md), p |-> lp]
               ELSE [S |-> InvokeLoader(S0, name, lp, md.loader), p |-> lp]

\* Mutant: a failed dependency does not stop the load.
LoadAfterDepsIgnore(S, job) == InvokeLoader(S, job.r.name, job.r.p, job.r.i)

\* loadFeature resumed after `await Promise.all(...)`.
LoadAfterDeps(S, job) ==
    IF job.ok THEN InvokeLoader(S, job.r.name, job.r.p, job.r.i)
    ELSE Settle(S, job.r.p, FALSE, job.val)

\* Mutant: the module is registered without being validated.
LoadAfterLoaderNoCheck(S, job) ==
    IF ~job.ok THEN Settle(S, job.r.p, FALSE, job.val)
    ELSE Settle(ModuleRegister(S, job.r.name), job.r.p, TRUE, NoVal)

\* loadFeature resumed after `await metadata.loader()`: validate the
\* module, then register(container).
LoadAfterLoader(S, job) ==
    LET name == job.r.name
        lp == job.r.p
    IN IF ~job.ok THEN Settle(S, lp, FALSE, job.val)
       ELSE IF job.val.kind = "malformed"
       THEN Settle(S, lp, FALSE, MkVal("invalidModule", name, << >>, lp))
       ELSE IF job.val.kind = "moduleThrows"
       THEN Settle([S EXCEPT !.registerCalls[name] = @ + 1], lp, FALSE,
                   MkVal("registerError", name, << >>, lp))
       ELSE Settle(ModuleRegister(S, name), lp, TRUE, NoVal)

\* Mutant: loadedFeatures.add is in the finally block.
EnsureContinueAddAlways(S, job) ==
    LET S1 == Finally([S EXCEPT !.loadedFeatures = @ \cup {job.r.name}], job.r.name, job.ok)
    IN IF job.ok THEN Settle(S1, job.r.p, TRUE, NoVal)
       ELSE Settle(S1, job.r.p, FALSE, CatchRethrow(job.val))

\* Mutant: the feature is not recorded as loaded.
EnsureContinueNoAdd(S, job) ==
    IF job.ok THEN Settle(Finally(S, job.r.name, TRUE), job.r.p, TRUE, NoVal)
    ELSE Settle(Finally(S, job.r.name, FALSE), job.r.p, FALSE, CatchRethrow(job.val))

\* ensureFeatureLoaded resumed after `await loadPromise`.
EnsureContinue(S, job) ==
    LET name == job.r.name
        outer == job.r.p
    IN IF job.ok
       THEN Settle(Finally([S EXCEPT !.loadedFeatures = @ \cup {name}], name, TRUE),
                   outer, TRUE, NoVal)
       ELSE Settle(Finally(S, name, FALSE), outer, FALSE, CatchRethrow(job.val))

\* Mutant: Promise.allSettled instead of Promise.all.
AllElementSettled(S, job) ==
    LET a == job.r.p
        S1 == [S EXCEPT !.promises[a].cnt = @ - 1]
    IN IF S1.promises[a].cnt = 0 THEN Settle(S1, a, TRUE, NoVal) ELSE S1

\* Mutant: a rejected element is ignored, the aggregate waits on.
AllElementIgnoreRejected(S, job) ==
    LET a == job.r.p
        S1 == [S EXCEPT !.promises[a].cnt = @ - 1]
    IN IF ~job.ok THEN S
       ELSE IF S1.promises[a].cnt = 0 THEN Settle(S1, a, TRUE, NoVal)
       ELSE S1

\* One element of Promise.all settles.
AllElement(S, job) ==
    LET a == job.r.p
        S1 == [S EXCEPT !.promises[a].cnt = @ - 1]
    IN IF ~job.ok THEN Settle(S, a, FALSE, job.val)
       ELSE IF S1.promises[a].cnt = 0 THEN Settle(S1, a, TRUE, NoVal)
       ELSE S1

\* NewPromiseResolveThenableJob: thenable.then(resolve outer, reject outer).
ThenableJob(S, job) == Then(S, job.r.i, MkReaction("resolveOuter", "", job.r.p, 0))

\* The promise an async function returned a promise from follows it.
ResolveOuter(S, job) == Settle(S, job.r.p, job.ok, job.val)

\* Mutant: preloadFeatures swallows a rejection of the aggregate.
PreloadContinueSwallow(S, job) == Settle(S, job.r.p, TRUE, NoVal)

\* preloadFeatures resumed after `await Promise.all(...)`.
PreloadContinue(S, job) == Settle(S, job.r.p, job.ok, job.val)

\* ---------------------------------------------------------------- state
\* No registry or introspection call has been made yet.
NoCall == [op |-> "none", arg |-> "", ret |-> ""]

\* useState's initial value in useFeatureService; by is instrumentation:
\* the effect run whose loadService made the last setState (0: none).
NullError == MkVal("null", "", << >>, 0)
InitialHookState ==
    [service |-> "null", isLoading |-> TRUE, error |-> NullError, by |-> 0]

\* No component is mounted.
NoProps == [mounted |-> FALSE, featureName |-> "", serviceType |-> ""]

InitObservers ==
    /\ lastCall = NoCall
    /\ props = NoProps
    /\ hookState = InitialHookState
    /\ effects = << >>

Init ==
    /\ features = << >>
    /\ loadedFeatures = {}
    /\ loadingFeatures = [n \in Names |-> 0]
    /\ promises = << >>
    /\ microtasks = << >>
    /\ container = {}
    /\ isRegistered = {}
    /\ loaderCalls = [n \in Names |-> 0]
    /\ registerCalls = [n \in Names |-> 0]
    /\ registerLog = << >>
    /\ bindCalls = [n \in DOMAIN registerCalls |-> 0]
    /\ calls = << >>
    /\ userTurn = FALSE
    /\ InitObservers

\* -------------------------------------------------------------- actions
\* Caller code runs in a task of its own, which starts when the job queue
\* is empty, or in the continuation of a call it awaited; it runs to
\* completion before the next job.  With an empty queue a new task may
\* start at once, so userTurn is kept only while jobs are queued.
UserCanRun == userTurn \/ microtasks = << >>

\* The caller awaits the promise p its call returned.
CallerAwait(S, p) == Then(S, p, MkReaction("caller", "", p, 0))

\* featureRegistry.register(metadata)
RegistryRegister(md) ==
    /\ UserCanRun
    /\ \A i \in 1..Len(features) :
          ImportIndex(features[i].name) <= ImportIndex(md.name)
    /\ features' = Register(features, md)
    /\ UNCHANGED <<loadedFeatures, loadingFeatures, promises, microtasks, container,
                   isRegistered, loaderCalls, registerCalls, registerLog, bindCalls, calls,
                   userTurn, hookVars>>
    /\ lastCall' = NoCall

\* A caller invokes ensureFeatureLoaded(name) in state S0 and awaits the
\* result.
EnsureFeatureLoadedIn(S0, name) ==
    /\ UserCanRun
    /\ Len(calls) < MaxCalls
    /\ \E e \in {EnsureSync(S0, name, 0)} :
          \E S \in {CallerAwait(e.S, e.p)} :
             /\ Commit(S)
             /\ calls' = Append(calls, e.p)
             /\ userTurn' = (S.microtasks # << >>)
    /\ lastCall' = NoCall
    /\ UNCHANGED <<features, hookVars>>

EnsureFeatureLoaded(name) == EnsureFeatureLoadedIn(St, name)

\* preloadFeatures(featureNames) up to its first suspension.
PreloadSync(S, names) ==
    LET S1 == NewPromise(S, MkPromise("preload", "", 0, "", "pending"))
        outer == LastId(S1)
        E == EnsureAll(S1, names, outer)
        A == PromiseAll(E.S, E.ps)
    IN [S |-> Then(A.S, A.p, MkReaction("preloadAwait", "", outer, 0)), p |-> outer]

\* A caller invokes preloadFeatures(names) and awaits the result.
PreloadFeatures(names) ==
    /\ UserCanRun
    /\ Len(calls) < MaxCalls
    /\ \E e \in {PreloadSync(St, names)} :
          \E S \in {CallerAwait(e.S, e.p)} :
             /\ Commit(S)
             /\ calls' = Append(calls, e.p)
             /\ userTurn' = (S.microtasks # << >>)
    /\ lastCall' = NoCall
    /\ UNCHANGED <<features, hookVars>>

\* The promise of one loader() invocation settles (the dynamic import
\* completed or failed).
LoaderSettle(p, outcome) ==
    /\ promises[p].kind = "loader"
    /\ promises[p].st = "pending"
    /\ Commit(Settle(St, p, outcome \notin {"reject", "rejectValue"},
                     MkVal(CASE outcome = "reject" -> "loaderError"
                             [] outcome = "rejectValue" -> "loaderValue"
                             [] OTHER -> outcome,
                           promises[p].name, << >>, p)))
    /\ lastCall' = NoCall
    /\ UNCHANGED <<features, calls, userTurn, hookVars>>

\* The job at the head of the queue is a reaction of kind k.
JobReady(k) == microtasks # << >> /\ Head(microtasks).r.k = k

\* The job at the head of the queue runs to completion.
RunJob(Continue(_, _)) ==
    /\ \E S \in {Continue([St EXCEPT !.microtasks = Tail(@)], Head(microtasks))} :
          Commit(S)
    /\ userTurn' = FALSE
    /\ lastCall' = NoCall
    /\ UNCHANGED <<features, calls, hookVars>>

RunEnsureContinue ==
    /\ JobReady("ensureAwait")
    /\ RunJob(EnsureContinue)

RunLoadAfterDeps ==
    /\ JobReady("loadAfterDeps")
    /\ RunJob(LoadAfterDeps)

RunLoadAfterLoader ==
    /\ JobReady("loadAfterLoader")
    /\ RunJob(LoadAfterLoader)

RunAllElement ==
    /\ JobReady("allElem")
    /\ RunJob(AllElement)

RunThenableJob ==
    /\ JobReady("thenable")
    /\ RunJob(ThenableJob)

RunResolveOuter ==
    /\ JobReady("resolveOuter")
    /\ RunJob(ResolveOuter)

RunPreloadContinue ==
    /\ JobReady("preloadAwait")
    /\ RunJob(PreloadContinue)

\* The continuation of a caller's await runs: caller code has the turn.
RunCaller ==
    /\ JobReady("caller")
    /\ microtasks' = Tail(microtasks)
    /\ userTurn' = (Tail(microtasks) # << >>)
    /\ UNCHANGED <<features, loadedFeatures, loadingFeatures, promises, container,
                   isRegistered, loaderCalls, registerCalls, registerLog, bindCalls, calls,
                   hookVars>>
    /\ lastCall' = NoCall

Next ==
    \/ \E md \in Descriptors : RegistryRegister(md)
    \/ \E name \in Names : EnsureFeatureLoaded(name)
    \/ \E names \in PreloadLists : PreloadFeatures(names)
    \/ \E outcome \in LoaderOutcomes : \E p \in DOMAIN promises : LoaderSettle(p, outcome)
    \/ RunEnsureContinue
    \/ RunLoadAfterDeps
    \/ RunLoadAfterLoader
    \/ RunAllElement
    \/ RunThenableJob
    \/ RunResolveOuter
    \/ RunPreloadContinue
    \/ RunCaller

Spec == Init /\ [][Next]_vars

\* ------------------------------------------------------ the application
\* The state once App.tsx has imported its four feature index files:
\* every feature is registered, none is loaded.
InitApp ==
    /\ features = AppFeatures
    /\ loadedFeatures = {}
    /\ loadingFeatures = [n \in AppNames |-> 0]
    /\ promises = << >>
    /\ microtasks = << >>
    /\ container = {}
    /\ isRegistered = {}
    /\ loaderCalls = [n \in AppNames |-> 0]
    /\ registerCalls = [n \in AppNames |-> 0]
    /\ registerLog = << >>
    /\ bindCalls = [n \in DOMAIN registerCalls |-> 0]
    /\ calls = << >>
    /\ userTurn = FALSE
    /\ InitObservers

\* The application preloads its main features.
AppPreload(names) ==
    /\ Len(calls) < MaxPreloads
    /\ PreloadFeatures(names)

NextApp ==
    \/ \E names \in AppPreloadLists : AppPreload(names)
    \/ \E outcome \in LoaderOutcomes : \E p \in DOMAIN promises : LoaderSettle(p, outcome)
    \/ RunEnsureContinue
    \/ RunLoadAfterDeps
    \/ RunLoadAfterLoader
    \/ RunAllElement
    \/ RunThenableJob
    \/ RunResolveOuter
    \/ RunPreloadContinue
    \/ RunCaller

SpecApp == InitApp /\ [][NextApp]_vars

\* The engine runs the job at the head of the queue.
RunNextJob ==
    \/ RunEnsureContinue
    \/ RunLoadAfterDeps
    \/ RunLoadAfterLoader
    \/ RunAllElement
    \/ RunThenableJob
    \/ RunResolveOuter
    \/ RunPreloadContinue
    \/ RunCaller

\* Some loader() invocation that is pending settles.
SomeLoaderSettles ==
    \E outcome \in LoaderOutcomes : \E p \in DOMAIN promises : LoaderSettle(p, outcome)

\* The application when the engine keeps draining the job queue and
\* every loader() invocation eventually settles.
SpecAppFair == SpecApp /\ WF_vars(RunNextJob) /\ WF_vars(SomeLoaderSettles)

\* ---------------------------------------------------- useFeatureService
\* The (featureName, serviceType) pairs the component is rendered with.  A
\* service key is named after the feature whose module binds it; no
\* module binds "other"; 'notifications' is not imported by App.tsx.
HookPairs == {<<"user", "user">>, <<"user", "other">>, <<"auth", "auth">>,
              <<"notifications", "notifications">>}
HookNames == AppNames \cup {"notifications"}

\* error instanceof Error
IsErrorInstance(error) == error.kind # "loaderValue"

\* Mutant: every failure is wrapped in a new Error.
NormaliseErrorWrapAll(error) == MkVal("stringified", error.feature, << >>, 0)

\* error instanceof Error ? error : new Error(String(error))
NormaliseError(error) ==
    IF IsErrorInstance(error) THEN error
    ELSE MkVal("stringified", error.feature, << >>, 0)

\* The Error loadService throws when the service key is not bound.
ServiceNotFound(featureName) == MkVal("serviceNotFound", featureName, << >>, 0)

\* Mutant: setState without the isMounted test.
SetStateAlways(hs, eff, i, new) == [new EXCEPT !.by = i]

\* if (isMounted) setState(new), in effect run i.
SetStateIfMounted(hs, eff, i, new) ==
    IF eff.isMounted THEN [new EXCEPT !.by = i] ELSE hs

\* Mutant: container.get without the isBound test, its result taken as
\* the service whatever it is.
LoadServiceContinueNoBoundTest(hs, eff, i, job, bound) ==
    IF job.ok
    THEN IF ~eff.isMounted THEN hs
         ELSE SetStateIfMounted(hs, eff, i,
                 [service |-> eff.serviceType, isLoading |-> FALSE,
                  error |-> NullError, by |-> 0])
    ELSE SetStateIfMounted(hs, eff, i,
            [service |-> "null", isLoading |-> FALSE,
             error |-> NormaliseError(job.val), by |-> 0])

\* loadService resumed after `await ensureFeatureLoaded(featureName)` in
\* effect run i: the new useState value.
LoadServiceContinue(hs, eff, i, job, bound) ==
    IF job.ok
    THEN IF ~eff.isMounted THEN hs
         ELSE IF eff.serviceType \notin bound
         THEN SetStateIfMounted(hs, eff, i,
                 [service |-> "null", isLoading |-> FALSE,
                  error |-> NormaliseError(ServiceNotFound(eff.featureName)), by |-> 0])
         ELSE SetStateIfMounted(hs, eff, i,
                 [service |-> eff.serviceType, isLoading |-> FALSE,
                  error |-> NullError, by |-> 0])
    ELSE SetStateIfMounted(hs, eff, i,
            [service |-> "null", isLoading |-> FALSE,
             error |-> NormaliseError(job.val), by |-> 0])

\* The effect body: isMounted = true and loadService() up to its await.
RunEffect(S, f) ==
    LET e == EnsureSync(S, f, 0)
    IN [S |-> Then(e.S, e.p, MkReaction("hookAwait", f, e.p, Len(effects) + 1)),
        p |-> e.p]

\* The effect's cleanup: isMounted = false in the closure of the last run.
Cleanup(es) ==
    IF es = << >> THEN es ELSE [es EXCEPT ![Len(es)].isMounted = FALSE]

\* React runs the effect for the pair (f, t), after the cleanup of the
\* previous run if there is one.  React works in tasks of its own, which
\* start with an empty job queue.
Effect(f, t) ==
    /\ microtasks = << >>
    /\ Len(effects) < MaxEffects
    /\ \E r \in {RunEffect(St, f)} :
          /\ Commit(r.S)
          /\ calls' = Append(calls, r.p)
          /\ effects' = Append(Cleanup(effects),
                               [featureName |-> f, serviceType |-> t,
                                isMounted |-> TRUE, p |-> r.p])
    /\ props' = [mounted |-> TRUE, featureName |-> f, serviceType |-> t]
    /\ userTurn' = FALSE
    /\ lastCall' = NoCall
    /\ UNCHANGED features

\* Mutant: an effect without a dependency list runs after every render.
DepsChangedAlways(old, new) == TRUE

\* React's comparison of the dependency list [featureName, serviceType]
\* of this render with that of the previous one.
DepsChanged(old, new) == old # new

\* A component using the hook mounts: initial state, first effect run.
Mount(f, t) ==
    /\ ~props.mounted
    /\ hookState' = InitialHookState
    /\ Effect(f, t)

\* The component is rendered with another pair: the state is kept, the
\* effect runs again.
ChangePair(f, t) ==
    /\ props.mounted
    /\ DepsChanged(<<props.featureName, props.serviceType>>, <<f, t>>)
    /\ hookState' = hookState
    /\ Effect(f, t)

\* The component is rendered again with the same pair, for instance after
\* its own setState: the dependency list is unchanged, no effect runs.
Rerender ==
    /\ microtasks = << >>
    /\ props.mounted
    /\ ~DepsChanged(<<props.featureName, props.serviceType>>,
                    <<props.featureName, props.serviceType>>)
    /\ lastCall' = [op |-> "render", arg |-> props.featureName, ret |-> ""]
    /\ UNCHANGED <<features, loadedFeatures, loadingFeatures, promises, microtasks,
                   container, isRegistered, loaderCalls, registerCalls, registerLog, bindCalls,
                   calls, userTurn, hookVars>>

\* The component unmounts: React runs the cleanup.
Unmount ==
    /\ microtasks = << >>
    /\ props.mounted
    /\ props' = NoProps
    /\ effects' = Cleanup(effects)
    /\ lastCall' = NoCall
    /\ UNCHANGED <<features, loadedFeatures, loadingFeatures, promises, microtasks,
                   container, isRegistered, loaderCalls, registerCalls, registerLog, bindCalls,
                   calls, userTurn, hookState>>

\* loadService resumes.
RunLoadServiceContinue ==
    /\ JobReady("hookAwait")
    /\ hookState' = LoadServiceContinue(hookState, effects[Head(microtasks).r.i],
                                        Head(microtasks).r.i, Head(microtasks),
                                        container)
    /\ microtasks' = Tail(microtasks)
    /\ userTurn' = FALSE
    /\ lastCall' = NoCall
    /\ UNCHANGED <<features, loadedFeatures, loadingFeatures, promises, container,
                   isRegistered, loaderCalls, registerCalls, registerLog, bindCalls, calls,
                   props, effects>>

\* The application after startup, with a component that uses the hook.
InitHook ==
    /\ features = AppFeatures
    /\ loadedFeatures = {}
    /\ loadingFeatures = [n \in HookNames |-> 0]
    /\ promises = << >>
    /\ microtasks = << >>
    /\ container = {}
    /\ isRegistered = {}
    /\ loaderCalls = [n \in HookNames |-> 0]
    /\ registerCalls = [n \in HookNames |-> 0]
    /\ registerLog = << >>
    /\ bindCalls = [n \in DOMAIN registerCalls |-> 0]
    /\ calls = << >>
    /\ userTurn = FALSE
    /\ InitObservers

NextHook ==
    \/ \E pair \in HookPairs : Mount(pair[1], pair[2])
    \/ \E pair \in HookPairs : ChangePair(pair[1], pair[2])
    \/ Rerender
    \/ Unmount
    \/ \E outcome \in HookLoaderOutcomes : \E p \in DOMAIN promises : LoaderSettle(p, outcome)
    \/ RunLoadServiceContinue
    \/ RunEnsureContinue
    \/ RunLoadAfterDeps
    \/ RunLoadAfterLoader
    \/ RunAllElement
    \/ RunThenableJob
    \/ RunResolveOuter

SpecHook == InitHook /\ [][NextHook]_vars

\* ----------------------------------------------------- dependency cycle
\* Two features that declare each other as dependency.
CycleA == [name |-> "A", dependencies |-> <<"B">>, loader |-> 1, tags |-> << >>]
CycleB == [name |-> "B", dependencies |-> <<"A">>, loader |-> 1, tags |-> << >>]
CycleNames == {"A", "B"}

InitCycle ==
    /\ features = <<CycleA, CycleB>>
    /\ loadedFeatures = {}
    /\ loadingFeatures = [n \in CycleNames |-> 0]
    /\ promises = << >>
    /\ microtasks = << >>
    /\ container = {}
    /\ isRegistered = {}
    /\ loaderCalls = [n \in CycleNames |-> 0]
    /\ registerCalls = [n \in CycleNames |-> 0]
    /\ registerLog = << >>
    /\ bindCalls = [n \in DOMAIN registerCalls |-> 0]
    /\ calls = << >>
    /\ userTurn = FALSE
    /\ InitObservers

\* A caller asks for a feature of the cycle; the call stack runs out in
\* one of the two functions.
CycleEnsure(name, site) ==
    EnsureFeatureLoadedIn([St EXCEPT !.overflowIn = site], name)

NextCycle ==
    \/ \E name \in CycleNames : \E site \in OverflowSites : CycleEnsure(name, site)
    \/ RunEnsureContinue
    \/ RunLoadAfterDeps
    \/ RunAllElement
    \/ RunThenableJob
    \/ RunResolveOuter
    \/ RunCaller

SpecCycle == InitCycle /\ [][NextCycle]_vars

\* ------------------------------------------- a feature with two dependencies
\* 'notifications' declares no dependencies; 'billing' stands for a
\* feature that declares two, as FeatureMetadata.dependencies allows.
NotificationsMetadata == [name |-> "notifications", dependencies |-> << >>,
                          loader |-> 1, tags |-> <<"messaging", "alerts">>]
BillingMetadata == [name |-> "billing", dependencies |-> <<"auth", "notifications">>,
                    loader |-> 1, tags |-> << >>]
DepsNames == {"auth", "notifications", "billing"}
\* The features callers ask for; 'notifications' is loaded as a dependency.
DepsRequested == {"billing", "auth"}
\* A loader gives its module or fails, when it settles at all.
DepsLoaderOutcomes == {"module", "reject"}

InitDeps ==
    /\ features = <<AuthMetadata, NotificationsMetadata, BillingMetadata>>
    /\ loadedFeatures = {}
    /\ loadingFeatures = [n \in DepsNames |-> 0]
    /\ promises = << >>
    /\ microtasks = << >>
    /\ container = {}
    /\ isRegistered = {}
    /\ loaderCalls = [n \in DepsNames |-> 0]
    /\ registerCalls = [n \in DepsNames |-> 0]
    /\ registerLog = << >>
    /\ bindCalls = [n \in DOMAIN registerCalls |-> 0]
    /\ calls = << >>
    /\ userTurn = FALSE
    /\ InitObservers

NextDeps ==
    \/ \E name \in DepsRequested : EnsureFeatureLoaded(name)
    \/ \E outcome \in DepsLoaderOutcomes : \E p \in DOMAIN promises : LoaderSettle(p, outcome)
    \/ RunEnsureContinue
    \/ RunLoadAfterDeps
    \/ RunLoadAfterLoader
    \/ RunAllElement
    \/ RunThenableJob
    \/ RunResolveOuter
    \/ RunCaller

SpecDeps == InitDeps /\ [][NextDeps]_vars

\* ------------------------------------------------- resetFeatureManager
\* Mutant: only loadedFeatures is cleared.
ResetSyncLoadedOnly(S) == [S EXCEPT !.loadedFeatures = {}]

\* loadedFeatures.clear(); loadingFeatures.clear();
ResetSync(S) ==
    [S EXCEPT !.loadedFeatures = {},
              !.loadingFeatures = [n \in DOMAIN @ |-> 0]]

\* A caller (a test) invokes resetFeatureManager().
ResetFeatureManager ==
    /\ UserCanRun
    /\ Commit(ResetSync(St))
    /\ lastCall' = [op |-> "reset", arg |-> "", ret |-> "undefined"]
    /\ UNCHANGED <<features, calls, userTurn, hookVars>>

\* A navigator file is imported and calls the feature module's register
\* function on the container itself.
NavigatorRegister(name) ==
    /\ UserCanRun
    /\ registerCalls[name] < MaxRegisters
    /\ Commit(ModuleRegister(St, name))
    /\ lastCall' = [op |-> "moduleRegister", arg |-> name, ret |-> "undefined"]
    /\ UNCHANGED <<features, calls, userTurn, hookVars>>

\* The feature callers and the navigator of this scenario use.
ResetNames == {"auth"}

InitReset ==
    /\ features = <<AuthMetadata>>
    /\ loadedFeatures = {}
    /\ loadingFeatures = [n \in Names |-> 0]
    /\ promises = << >>
    /\ microtasks = << >>
    /\ container = {}
    /\ isRegistered = {}
    /\ loaderCalls = [n \in Names |-> 0]
    /\ registerCalls = [n \in Names |-> 0]
    /\ registerLog = << >>
    /\ bindCalls = [n \in DOMAIN registerCalls |-> 0]
    /\ calls = << >>
    /\ userTurn = FALSE
    /\ InitObservers

NextReset ==
    \/ \E name \in ResetNames : EnsureFeatureLoaded(name)
    \/ ResetFeatureManager
    \/ \E name \in ResetNames : NavigatorRegister(name)
    \/ \E outcome \in DepsLoaderOutcomes : \E p \in DOMAIN promises : LoaderSettle(p, outcome)
    \/ RunEnsureContinue
    \/ RunLoadAfterLoader
    \/ RunThenableJob
    \/ RunResolveOuter
    \/ RunCaller

SpecReset == InitReset /\ [][NextReset]_vars

\* -------------------------------------------- registry and introspection
\* ensureFeatureLoaded calls issued while the introspection functions are
\* exercised.
MaxProbeCalls == 1

\* A feature index file evaluated a second time registers an equal
\* descriptor with a new loader closure; another module may register a
\* name that is taken with different content.
AuthMetadataAgain == [AuthMetadata EXCEPT !.loader = 2]
UserMetadataOther == [name |-> "user", dependencies |-> << >>, loader |-> 2,
                      tags |-> <<"profile">>]
ProbeDescriptors == Descriptors \cup {AuthMetadataAgain, UserMetadataOther}
ProbeTags == {"core"}

\* The names the registry and the manager are asked about: a feature with
\* a dependency, and one that is not among the three registered here.
ProbeNames == {"user", "admin"}

\* What a function without a result returns, and Map.get for a missing key.
Undefined == "undefined"

\* FeatureRegistry.get(name)
FeatureRegistryGet(fs, name) ==
    IF RegistryFind(fs, name) = 0 THEN Undefined ELSE fs[RegistryFind(fs, name)]

\* FeatureRegistry.has(name)
FeatureRegistryHas(fs, name) == RegistryFind(fs, name) # 0

\* FeatureRegistry.getAll()
FeatureRegistryGetAll(fs) == [i \in 1..Len(fs) |-> fs[i].name]

\* FeatureRegistry.getAllMetadata()
FeatureRegistryGetAllMetadata(fs) == fs

\* f.tags?.includes(tag)
HasTag(md, tag) == \E i \in 1..Len(md.tags) : md.tags[i] = tag

\* FeatureRegistry.getByTag(tag)
FeatureRegistryGetByTag(fs, tag) == SelectSeq(fs, LAMBDA md : HasTag(md, tag))

\* isFeatureLoaded(featureName)
IsFeatureLoaded(S, name) == [S |-> S, ret |-> name \in S.loadedFeatures]

\* getLoadedFeatures(): the elements of loadedFeatures
GetLoadedFeatures(S) == [S |-> S, ret |-> S.loadedFeatures]

\* getRegisteredFeatures()
GetRegisteredFeatures(S) == [S |-> S, ret |-> FeatureRegistryGetAll(features)]

\* Mutant: looking a feature up starts loading it.
GetFeatureMetadataLoads(S, name) ==
    [S |-> EnsureSync(S, name, 0).S, ret |-> FeatureRegistryGet(features, name)]

\* getFeatureMetadata(featureName)
GetFeatureMetadata(S, name) == [S |-> S, ret |-> FeatureRegistryGet(features, name)]

\* getFeatureStats()
GetFeatureStats(S) ==
    LET registered == GetRegisteredFeatures(S)
        loaded == GetLoadedFeatures(registered.S)
    IN [S |-> loaded.S,
        ret |-> [registered |-> Len(registered.ret),
                 loaded |-> Cardinality(loaded.ret),
                 notLoaded |-> SelectSeq(registered.ret, LAMBDA f : f \notin loaded.ret),
                 registeredList |-> registered.ret,
                 loadedList |-> loaded.ret]]

\* Caller code calls a registry method: only the registry is touched.
RegistryCall(op, arg, ret) ==
    /\ UserCanRun
    /\ lastCall' = [op |-> op, arg |-> arg, ret |-> ret]
    /\ UNCHANGED <<loadedFeatures, loadingFeatures, promises, microtasks, container,
                   isRegistered, loaderCalls, registerCalls, registerLog, bindCalls, calls,
                   userTurn, hookVars>>

\* Caller code calls one of the manager's introspection functions.
ManagerCall(op, arg, r) ==
    /\ UserCanRun
    /\ Commit(r.S)
    /\ lastCall' = [op |-> op, arg |-> arg, ret |-> r.ret]
    /\ UNCHANGED <<features, calls, userTurn, hookVars>>

CallRegister(md) ==
    /\ features' = Register(features, md)
    /\ RegistryCall("register", md, Undefined)

CallRegistryGet(name) ==
    /\ RegistryCall("get", name, FeatureRegistryGet(features, name))
    /\ UNCHANGED features

CallRegistryHas(name) ==
    /\ RegistryCall("has", name, FeatureRegistryHas(features, name))
    /\ UNCHANGED features

CallRegistryGetAll ==
    /\ RegistryCall("getAll", "", FeatureRegistryGetAll(features))
    /\ UNCHANGED features

CallRegistryGetAllMetadata ==
    /\ RegistryCall("getAllMetadata", "", FeatureRegistryGetAllMetadata(features))
    /\ UNCHANGED features

CallRegistryGetByTag(tag) ==
    /\ RegistryCall("getByTag", tag, FeatureRegistryGetByTag(features, tag))
    /\ UNCHANGED features

CallIsFeatureLoaded(name) ==
    ManagerCall("isFeatureLoaded", name, IsFeatureLoaded(St, name))

CallGetLoadedFeatures ==
    ManagerCall("getLoadedFeatures", "", GetLoadedFeatures(St))

CallGetRegisteredFeatures ==
    ManagerCall("getRegisteredFeatures", "", GetRegisteredFeatures(St))

CallGetFeatureMetadata(name) ==
    ManagerCall("getFeatureMetadata", name, GetFeatureMetadata(St, name))

CallGetFeatureStats ==
    ManagerCall("getFeatureStats", "", GetFeatureStats(St))

\* The registry alone, fed by any module in any order.
NextRegistry ==
    \/ \E md \in ProbeDescriptors : CallRegister(md)
    \/ \E name \in ProbeNames : CallRegistryGet(name)
    \/ \E name \in ProbeNames : CallRegistryHas(name)
    \/ CallRegistryGetAll
    \/ CallRegistryGetAllMetadata
    \/ \E tag \in ProbeTags : CallRegistryGetByTag(tag)

SpecRegistry == Init /\ [][NextRegistry]_vars

\* A feature index file is imported, in App.tsx's order.
CallRegisterImported(md) ==
    /\ \A i \in 1..Len(features) :
          ImportIndex(features[i].name) <= ImportIndex(md.name)
    /\ CallRegister(md)

\* Callers load features while the introspection is exercised.
ProbeEnsure(name) ==
    /\ Len(calls) < MaxProbeCalls
    /\ EnsureFeatureLoaded(name)

ProbePreload(names) ==
    /\ Len(calls) < MaxProbeCalls
    /\ PreloadFeatures(names)

NextProbe ==
    \/ \E md \in Descriptors : CallRegisterImported(md)
    \/ \E name \in ProbeNames : CallRegistryGet(name)
    \/ \E name \in ProbeNames : CallRegistryHas(name)
    \/ CallRegistryGetAll
    \/ CallRegistryGetAllMetadata
    \/ \E tag \in ProbeTags : CallRegistryGetByTag(tag)
    \/ \E name \in ProbeNames : CallIsFeatureLoaded(name)
    \/ CallGetLoadedFeatures
    \/ CallGetRegisteredFeatures
    \/ \E name \in ProbeNames : CallGetFeatureMetadata(name)
    \/ CallGetFeatureStats
    \/ \E name \in Names : ProbeEnsure(name)
    \/ \E names \in PreloadLists : ProbePreload(names)
    \/ \E outcome \in LoaderOutcomes : \E p \in DOMAIN promises : LoaderSettle(p, outcome)
    \/ RunEnsureContinue
    \/ RunLoadAfterDeps
    \/ RunLoadAfterLoader
    \/ RunAllElement
    \/ RunThenableJob
    \/ RunResolveOuter
    \/ RunPreloadContinue
    \/ RunCaller

SpecProbe == Init /\ [][NextProbe]_vars

\* ----------------------------------------------------------- properties
Ids == DOMAIN promises
EnsureIds(n) == {p \in Ids : promises[p].kind = "ensure" /\ promises[p].name = n}
LoadIds(n) == {p \in Ids : promises[p].kind = "load" /\ promises[p].name = n}
LoaderIds(n) == {p \in Ids : promises[p].kind = "loader" /\ promises[p].name = n}
External(p) == \E i \in 1..Len(calls) : calls[i] = p
Settled(p) == promises[p].st # "pending"
Fulfilled(p) == promises[p].st = "fulfilled"
Rejected(p) == promises[p].st = "rejected"
Logged(n) == \E i \in 1..Len(registerLog) : registerLog[i] = n
TimesLogged(n) == Cardinality({i \in 1..Len(registerLog) : registerLog[i] = n})

\* Nothing is left to run: no job is queued and no loader is outstanding.
Idle == microtasks = << >> /\ \A p \in Ids : promises[p].kind = "loader" => Settled(p)

\* No load episode of n has failed so far.
NeverFailed(n) == \A l \in LoadIds(n) : ~Rejected(l)

\* C1: as long as no load of a feature fails, any number of overlapping
\* ensureFeatureLoaded calls for it share one episode: its loader and its
\* register are invoked at most once, exactly once by the time any of the
\* calls has resolved, no call rejects, and none is left pending when
\* nothing is left to run.
C1_SingleFlight ==
    \A n \in Names : NeverFailed(n) =>
        /\ loaderCalls[n] <= 1
        /\ registerCalls[n] <= 1
        /\ Cardinality(LoadIds(n)) <= 1
        /\ \A p \in EnsureIds(n) :
              /\ ~Rejected(p)
              /\ promises[p].how # "fast" => promises[p].ep \in LoadIds(n)
              /\ Fulfilled(p) => loaderCalls[n] = 1 /\ registerCalls[n] = 1
              /\ Idle => Fulfilled(p)

\* Two callers asked for an unloaded feature, the second before the first
\* settled; both resolved after a single loader() and a single register().
C1_Witness ==
    \E n \in Names : \E p, q \in EnsureIds(n) :
        /\ External(p) /\ External(q)
        /\ promises[p].how = "start" /\ promises[q].how = "join"
        /\ Fulfilled(p) /\ Fulfilled(q)
        /\ loaderCalls[n] = 1 /\ registerCalls[n] = 1

\* The declared dependencies of a registered feature.
DepsOf(n) == {RegistryGet(n).dependencies[i] :
                 i \in 1..Len(RegistryGet(n).dependencies)}

\* The rejection value of load promise l is an Error raised in its own
\* loadFeature call, the rejection of its own loader, or the rejection of
\* one of the dependency calls it made.
OriginalError(l) ==
    \/ /\ promises[l].val.origin = l
       /\ promises[l].val.kind \in {"notFound", "invalidModule", "registerError"}
    \/ \E q \in Ids : /\ promises[q].kind = "loader" /\ promises[q].ep = l
                      /\ Rejected(q) /\ promises[q].val = promises[l].val
                      /\ promises[q].val.kind = "loaderError"
                      /\ promises[q].val.origin = q
    \/ \E q \in Ids : /\ promises[q].kind = "ensure" /\ promises[q].parent = l
                      /\ Rejected(q) /\ promises[q].val = promises[l].val

\* C2: every call of one load episode, the one that started it and the
\* ones that joined it, settles as the episode's loadFeature promise does:
\* fulfilled when it is fulfilled, rejected with the identical value when
\* it is rejected, and that value is the original error.
C2_SameOutcome ==
    \A p \in Ids : (promises[p].kind = "ensure" /\ promises[p].how # "fast") =>
        LET l == promises[p].ep
        IN /\ Settled(p) => /\ promises[p].st = promises[l].st
                            /\ promises[p].val = promises[l].val
           /\ Rejected(l) => OriginalError(l)

\* The starter and a joiner of one episode of 'user' were both rejected
\* with the error of the failed dependency 'auth'.
C2_Witness ==
    \E p, q \in EnsureIds("user") :
        /\ External(p) /\ External(q)
        /\ promises[p].how = "start" /\ promises[q].how = "join"
        /\ promises[p].ep = promises[q].ep
        /\ Rejected(p) /\ Rejected(q)
        /\ promises[p].val.feature = "auth"
        /\ promises[p].val = promises[q].val

\* C3: whenever a feature module's register(container) is invoked by the
\* manager, every declared dependency of the feature is in loadedFeatures
\* and its own register(container) has completed before.
C3_DependenciesFirst ==
    [][\A n \in Names : registerCalls'[n] > registerCalls[n] =>
          \A d \in DepsOf(n) : d \in loadedFeatures /\ Logged(d)]_vars

\* 'chat' was registered after its load joined a load of 'user' that
\* another caller had started before.
C3_Witness ==
    /\ Logged("chat")
    /\ \E p \in EnsureIds("user"), q \in EnsureIds("user") :
          /\ External(p) /\ promises[p].how = "start"
          /\ promises[q].how = "join" /\ promises[q].ep = promises[p].ep
          /\ promises[q].parent \in LoadIds("chat")
          /\ Fulfilled(promises[q].parent)

\* The names a preloadFeatures call passed to ensureFeatureLoaded.
PreloadedBy(p) == {promises[q].name : q \in {c \in Ids : promises[c].parent = p}}

\* C4: a fulfilled ensureFeatureLoaded promise, of the call that started
\* the load, of a call that joined it or of a call that found the feature
\* loaded, means the feature is in loadedFeatures and its register has
\* completed; a fulfilled preloadFeatures promise means so for every name
\* of the list.
C4_ResolvedMeansLoaded ==
    \A p \in Ids :
        /\ (promises[p].kind = "ensure" /\ Fulfilled(p)) =>
              promises[p].name \in loadedFeatures /\ Logged(promises[p].name)
        /\ (promises[p].kind = "preload" /\ Fulfilled(p)) =>
              \A n \in PreloadedBy(p) : n \in loadedFeatures /\ Logged(n)

\* A call that joined an in-flight load has resolved, and so has a
\* preloadFeatures call.
C4_Witness ==
    /\ \E p \in Ids : /\ promises[p].kind = "ensure" /\ promises[p].how = "join"
                      /\ External(p) /\ Fulfilled(p)
    /\ \E p \in Ids : /\ promises[p].kind = "preload" /\ Fulfilled(p)
                      /\ PreloadedBy(p) = {"user", "chat"}

\* The transitive dependencies of n, through the registered descriptors.
RECURSIVE TransitiveDeps(_, _)
TransitiveDeps(n, fuel) ==
    IF fuel = 0 \/ ~RegistryHas(n) THEN {}
    ELSE DepsOf(n) \cup UNION {TransitiveDeps(d, fuel - 1) : d \in DepsOf(n)}

C6_LoadingXorLoaded ==
    \A n \in Names : ~(loadingFeatures[n] # 0 /\ n \in loadedFeatures)

\* 'auth' went from loading to loaded while 'user' is still loading.
C6_Witness ==
    /\ "auth" \in loadedFeatures /\ loadingFeatures["auth"] = 0
    /\ \E p \in EnsureIds("auth") : promises[p].how = "start" /\ Fulfilled(p)
    /\ loadingFeatures["user"] # 0

\* The step is an ensureFeatureLoaded(n) call of a caller.
IsEnsureCall(n) ==
    /\ Len(calls') = Len(calls) + 1
    /\ promises'[calls'[Len(calls')]].kind = "ensure"
    /\ promises'[calls'[Len(calls')]].name = n

\* C7: a feature in loadedFeatures stays there, its loader and its
\* register are not invoked again, an ensureFeatureLoaded call for it
\* returns a fulfilled promise and changes neither loadedFeatures nor
\* loadingFeatures nor the container, and no feature's register completes
\* twice.
C7_LoadedIsFinal ==
    [][\A n \in Names :
          /\ n \in loadedFeatures =>
                /\ n \in loadedFeatures'
                /\ loaderCalls'[n] = loaderCalls[n]
                /\ registerCalls'[n] = registerCalls[n]
          /\ (n \in loadedFeatures /\ IsEnsureCall(n)) =>
                /\ promises'[calls'[Len(calls')]].st = "fulfilled"
                /\ loadedFeatures' = loadedFeatures
                /\ loadingFeatures' = loadingFeatures
                /\ container' = container
                /\ loaderCalls' = loaderCalls
                /\ registerCalls' = registerCalls
          /\ TimesLogged(n)' <= 1]_vars

\* A caller asked for a feature that was already loaded.
C7_Witness ==
    \E n \in Names : \E p \in EnsureIds(n) :
        /\ External(p) /\ promises[p].how = "fast" /\ Fulfilled(p)
        /\ n \in loadedFeatures /\ TimesLogged(n) = 1

\* The starting call of an episode of n has just been rejected.
StarterRejects(n) ==
    \E p \in EnsureIds(n) :
        /\ promises[p].how = "start"
        /\ promises[p].st = "pending"
        /\ promises'[p].st = "rejected"

\* The last load of n failed and nothing of it is left in flight.
FailedLast(n) ==
    /\ n \notin loadedFeatures
    /\ \E p \in EnsureIds(n) : promises[p].how = "start" /\ Rejected(p)
    /\ \A p \in EnsureIds(n) : promises[p].how = "start" => Settled(p)

\* C8: when the call that started a load is rejected, the name is in
\* neither loadedFeatures nor loadingFeatures; the next ensureFeatureLoaded
\* call for it starts a new episode with a new loadFeature call, which
\* invokes the loader again unless the feature is unknown or has
\* dependencies to wait for.
C8_FailureIsRetriable ==
    [][\A n \in Names :
          /\ StarterRejects(n) =>
                n \notin loadedFeatures' /\ loadingFeatures'[n] = 0
          /\ FailedLast(n) => loadingFeatures[n] = 0
          /\ (FailedLast(n) /\ IsEnsureCall(n)) =>
                /\ promises'[calls'[Len(calls')]].how = "start"
                /\ Cardinality(LoadIds(n))' = Cardinality(LoadIds(n)) + 1
                /\ (RegistryHas(n) /\ DepsOf(n) = {}) =>
                      loaderCalls'[n] = loaderCalls[n] + 1]_vars

\* A first call for a feature was rejected because its register threw; a
\* second call invoked the loader again and resolved.
C8_Witness ==
    \E n \in Names : \E p, q \in EnsureIds(n) :
        /\ p < q
        /\ promises[p].how = "start" /\ Rejected(p)
        /\ promises[p].val.kind = "registerError"
        /\ promises[q].how = "start" /\ Fulfilled(q)
        /\ loaderCalls[n] = 2
        /\ n \in loadedFeatures

\* The promise the ensureFeatureLoaded call of this step returned.
NewCall == calls'[Len(calls')]

\* The step is a call for an unregistered name n and leaves loaders,
\* loadedFeatures, the registry and the container alone; the call belongs
\* to an episode rejected with the unknown-feature error for n.
UnknownCallFrame(n) ==
    /\ loaderCalls' = loaderCalls
    /\ loadedFeatures' = loadedFeatures
    /\ features' = features
    /\ container' = container
    /\ promises'[promises'[NewCall].ep].st = "rejected"
    /\ promises'[promises'[NewCall].ep].val.kind = "notFound"
    /\ promises'[promises'[NewCall].ep].val.feature = n

\* The claim as stated: the error of every call for an unregistered name
\* lists the names registered at the time of that call.
C9_UnknownListsCurrent ==
    [][\A n \in Names : (IsEnsureCall(n) /\ ~RegistryHas(n)) =>
          /\ UnknownCallFrame(n)
          /\ promises'[promises'[NewCall].ep].val.available
                = AvailableText(RegistryGetAll)]_vars

\* C9 (amended): a call for an unregistered name invokes no loader, leaves
\* loadedFeatures, the registry and the container unchanged, and is
\* rejected with the unknown-feature error of its episode, whose message
\* lists the names registered when the episode was started ('none' for an
\* empty registry): at the time of the call itself, unless the call joins
\* the entry an earlier call for the same name left in loadingFeatures.
C9_UnknownListsAtStart ==
    [][\A n \in Names :
          /\ (IsEnsureCall(n) /\ ~RegistryHas(n)) =>
                /\ UnknownCallFrame(n)
                /\ promises'[NewCall].how = "start" =>
                      promises'[promises'[NewCall].ep].val.available
                         = AvailableText(RegistryGetAll)
          /\ \A p \in EnsureIds(n) :
                (promises[p].how # "fast"
                    /\ promises[promises[p].ep].val.kind = "notFound"
                    /\ promises[promises[p].ep].val.feature = n) =>
                   /\ promises'[p].st # "fulfilled"
                   /\ promises'[p].st = "rejected" =>
                         promises'[p].val = promises[promises[p].ep].val]_vars

\* A call on the empty registry was rejected with a message listing
\* 'none'; after the feature was registered a second call resolved.
C9_Witness ==
    \E n \in Names : \E p, q \in EnsureIds(n) :
        /\ External(p) /\ External(q) /\ p < q
        /\ Rejected(p)
        /\ promises[p].val.kind = "notFound"
        /\ promises[p].val.feature = n
        /\ promises[p].val.available = <<"none">>
        /\ loaderCalls[n] = 1
        /\ Fulfilled(q)

\* C10: once a dependency call of a loadFeature call is rejected, that
\* loadFeature call invokes neither its loader nor its module's register,
\* it is never fulfilled, so no call of its episode resolves and the
\* episode does not add the feature to loadedFeatures, and when it settles
\* it is rejected with the dependency's error; for a dependency that is
\* not registered that error names the dependency.
C10_FailFast ==
    \A l \in Ids : \A d \in Ids :
        (promises[l].kind = "load" /\ promises[d].kind = "ensure"
            /\ promises[d].parent = l /\ Rejected(d)) =>
           /\ \A q \in Ids : ~(promises[q].kind = "loader" /\ promises[q].ep = l)
           /\ ~Fulfilled(l)
           /\ \A c \in Ids : (promises[c].kind = "ensure" /\ promises[c].how # "fast"
                                 /\ promises[c].ep = l) => ~Fulfilled(c)
           /\ Rejected(l) =>
                 \E e \in Ids : /\ promises[e].kind = "ensure" /\ promises[e].parent = l
                                /\ Rejected(e) /\ promises[e].val = promises[l].val
           /\ (promises[d].val.kind = "notFound"
                  /\ promises[d].val.origin = promises[d].ep) =>
                 promises[d].val.feature = promises[d].name

\* 'user' is registered and 'auth' is not: ensureFeatureLoaded('user') was
\* rejected with the unknown-feature error naming 'auth', the loader of
\* 'user' was never invoked and 'user' is not loaded.
C10_Witness ==
    \E p \in EnsureIds("user") :
        /\ External(p) /\ Rejected(p)
        /\ promises[p].val.kind = "notFound"
        /\ promises[p].val.feature = "auth"
        /\ loaderCalls["user"] = 0 /\ registerCalls["user"] = 0
        /\ "user" \notin loadedFeatures
        /\ RegistryHas("user") /\ ~RegistryHas("auth")

\* The loader of load promise l resolved to a value without a callable
\* register.
MalformedEpisode(l) ==
    /\ promises[l].kind = "load"
    /\ \E q \in Ids : /\ promises[q].kind = "loader" /\ promises[q].ep = l
                      /\ Fulfilled(q) /\ promises[q].val.kind = "malformed"

\* Promise p is settled by this step.
Settles(p) == promises[p].st = "pending" /\ promises'[p].st # "pending"

CallsOf(pp) == {c \in Ids : promises[c].kind = "ensure" /\ promises[c].parent = pp}

\* C12: a preloadFeatures call one of whose ensureFeatureLoaded calls is
\* rejected is never fulfilled and is rejected with the error of a
\* rejected call; the other calls are not cancelled: each of them settles,
\* is rejected only with an error of its own feature or of one of that
\* feature's transitive dependencies, and a fulfilled one has its feature
\* in loadedFeatures, while a feature all of whose loads were rejected is
\* not in loadedFeatures.
C12_PreloadAggregation ==
    \A pp \in Ids : promises[pp].kind = "preload" =>
        /\ (\E c \in CallsOf(pp) : Rejected(c)) =>
              /\ ~Fulfilled(pp)
              /\ Idle => Rejected(pp)
              /\ Rejected(pp) => \E c \in CallsOf(pp) :
                                    Rejected(c) /\ promises[c].val = promises[pp].val
        /\ \A c \in CallsOf(pp) :
              LET n == promises[c].name
              IN /\ Idle => Settled(c)
                 /\ Rejected(c) =>
                       promises[c].val.feature
                          \in {n} \cup TransitiveDeps(n, Cardinality(AppNames))
                 /\ Fulfilled(c) => n \in loadedFeatures
                 /\ (LoadIds(n) # {} /\ \A l \in LoadIds(n) : Rejected(l)) =>
                       n \notin loadedFeatures

\* preloadFeatures(['user','admin','chat']) was rejected with the error
\* of admin's loader; 'user' and 'chat' are loaded, 'admin' is not.
C12_Witness ==
    \E pp \in Ids :
        /\ promises[pp].kind = "preload" /\ External(pp) /\ Rejected(pp)
        /\ promises[pp].val.kind = "loaderError"
        /\ promises[pp].val.feature = "admin"
        /\ {"user", "chat"} \subseteq loadedFeatures
        /\ "admin" \notin loadedFeatures
        /\ Idle

\* The step is the call featureRegistry.register(md).
IsRegisterCall(md) == lastCall'.op = "register" /\ lastCall'.arg = md

\* C13: featureRegistry.register with a name that is present changes
\* nothing: get(name) returns the descriptor it returned before, with the
\* same loader and the same dependencies, the names getAll() returns and
\* their order are the same, and the call returns normally; a name that
\* is absent is appended with the descriptor given.
C13_DuplicateRegisterNoOp ==
    [][\A md \in ProbeDescriptors : IsRegisterCall(md) =>
          /\ lastCall'.ret = Undefined
          /\ FeatureRegistryHas(features, md.name) =>
                /\ features' = features
                /\ FeatureRegistryGet(features', md.name)
                      = FeatureRegistryGet(features, md.name)
                /\ FeatureRegistryGetAll(features') = FeatureRegistryGetAll(features)
                /\ FeatureRegistryGetAllMetadata(features')
                      = FeatureRegistryGetAllMetadata(features)
          /\ ~FeatureRegistryHas(features, md.name) =>
                /\ FeatureRegistryGet(features', md.name) = md
                /\ FeatureRegistryGetAll(features')
                      = Append(FeatureRegistryGetAll(features), md.name)]_vars

\* With 'auth', 'user' and 'chat' registered, 'user' was registered again
\* with another loader and other dependencies: the registry still holds
\* the first descriptor, in second place.
C13_Witness ==
    /\ lastCall.op = "register"
    /\ lastCall.arg = UserMetadataOther
    /\ features = <<AuthMetadata, UserMetadata, ChatMetadata>>
    /\ FeatureRegistryGet(features, "user").loader = 1

\* The names callers passed to ensureFeatureLoaded or preloadFeatures.
Requested ==
    {promises[c].name : c \in {q \in Ids : /\ promises[q].kind = "ensure"
                                           /\ \/ External(q)
                                              \/ /\ promises[q].parent # 0
                                                 /\ External(promises[q].parent)}}

\* The step is a call of the introspection function op.
ProbeStep(op) == lastCall'.op = op

\* 'auth' and 'user' are registered, in this order, and the only call so
\* far, ensureFeatureLoaded('user'), has resolved.
UserScenario ==
    /\ FeatureRegistryGetAll(features) = <<"auth", "user">>
    /\ Len(calls) = 1
    /\ promises[calls[1]].kind = "ensure"
    /\ promises[calls[1]].name = "user"
    /\ Fulfilled(calls[1])

\* C14: loadedFeatures holds only registered names that a caller passed
\* to ensureFeatureLoaded or preloadFeatures or that are transitive
\* dependencies of such names; with 'auth' and 'user' registered and
\* ensureFeatureLoaded('user') resolved, getLoadedFeatures() returns
\* exactly 'auth' and 'user', getRegisteredFeatures() returns
\* ['auth', 'user'], and isFeatureLoaded is false for any other name.
C14_LoadedOnlyRequested ==
    [][/\ \A n \in loadedFeatures' :
             /\ FeatureRegistryHas(features', n)
             /\ n \in Requested'
                   \cup UNION {TransitiveDeps(r, Cardinality(AppNames))' : r \in Requested'}
       /\ UserScenario =>
             /\ ProbeStep("getLoadedFeatures") => lastCall'.ret = {"auth", "user"}
             /\ ProbeStep("getRegisteredFeatures") => lastCall'.ret = <<"auth", "user">>
             /\ ProbeStep("isFeatureLoaded") =>
                   lastCall'.ret = (lastCall'.arg \in {"auth", "user"})]_vars

\* After ensureFeatureLoaded('user') resolved on the registry
\* ['auth', 'user'], isFeatureLoaded('admin') returned false.
C14_Witness ==
    /\ UserScenario
    /\ lastCall.op = "isFeatureLoaded" /\ lastCall.arg = "admin"
    /\ lastCall.ret = FALSE
    /\ loadedFeatures = {"auth", "user"}

\* The calls that started a load of n and have not settled.
PendingStarters(n) ==
    {p \in EnsureIds(n) : promises[p].how = "start" /\ ~Settled(p)}

\* C15: the step that settles the call that started a load episode,
\* fulfilling or rejecting it, removes the episode's name from
\* loadingFeatures; a name has an entry exactly while a call that started
\* a load of it is pending, the entry being that call's loadFeature
\* promise, so loadingFeatures is empty whenever no load is in progress.
C15_EntryAlwaysRemoved ==
    [][\A n \in Names :
          /\ \A p \in EnsureIds(n) :
                (promises[p].how = "start" /\ Settles(p)) => loadingFeatures'[n] = 0
          /\ loadingFeatures'[n] # 0 <=> PendingStarters(n)' # {}
          /\ \A p \in PendingStarters(n)' : promises'[p].ep = loadingFeatures'[n]
          /\ Idle' => loadingFeatures'[n] = 0]_vars

\* A load of 'auth' failed and a later one succeeded, a load of 'user'
\* failed, and loadingFeatures is empty.
C15_Witness ==
    /\ \E p, q \in EnsureIds("auth") :
          /\ promises[p].how = "start" /\ Rejected(p)
          /\ promises[q].how = "start" /\ Fulfilled(q)
    /\ \E p \in EnsureIds("user") : promises[p].how = "start" /\ Rejected(p)
    /\ \A n \in Names : loadingFeatures[n] = 0
    /\ Idle

\* The status of a feature name, from the registry, loadingFeatures and
\* loadedFeatures.
Status(n) ==
    IF n \in loadedFeatures THEN "LOADED"
    ELSE IF loadingFeatures[n] # 0 THEN "LOADING"
    ELSE IF FeatureRegistryHas(features, n) THEN "REGISTERED"
    ELSE "UNKNOWN"

\* The step starts a load of n: an ensureFeatureLoaded(n) call that found
\* n neither loaded nor loading.
StartsLoad(n) ==
    \E p \in EnsureIds(n)' : p \notin Ids /\ promises'[p].how = "start"

\* The step fulfils / rejects the call that started a load of n.
StarterSettles(n, st) ==
    \E p \in EnsureIds(n) :
        promises[p].how = "start" /\ Settles(p) /\ promises'[p].st = st

\* The transitions of the state machine, each with the operation that
\* takes it.
StatusStep(n) ==
    \/ Status(n)' = Status(n)
    \/ /\ Status(n) = "UNKNOWN" /\ Status(n)' = "REGISTERED"
       /\ features' = Append(features, features'[Len(features')])
       /\ features'[Len(features')].name = n
    \/ Status(n) = "REGISTERED" /\ Status(n)' = "LOADING" /\ StartsLoad(n)
    \/ Status(n) = "LOADING" /\ Status(n)' = "LOADED" /\ StarterSettles(n, "fulfilled")
    \/ Status(n) = "LOADING" /\ Status(n)' = "REGISTERED" /\ StarterSettles(n, "rejected")

\* The claim as stated: the status changes along the four transitions
\* only, and an unregistered name is never LOADING or LOADED.
C16_FourTransitions ==
    [][\A n \in Names :
          /\ StatusStep(n)
          /\ ~FeatureRegistryHas(features', n) => Status(n)' = "UNKNOWN"]_vars

\* C16 (amended): the status changes along the four transitions and, for
\* a name that is not registered, from UNKNOWN to LOADING by an
\* ensureFeatureLoaded call for it and back to UNKNOWN when that call is
\* rejected; an unregistered name is never LOADED, and it is LOADING only
\* with a loadFeature promise that is already rejected with the
\* unknown-feature error, its loader never invoked.
C16_StatusTransitions ==
    [][\A n \in Names :
          /\ \/ StatusStep(n)
             \/ Status(n) = "UNKNOWN" /\ Status(n)' = "LOADING" /\ StartsLoad(n)
             \/ /\ Status(n) = "LOADING" /\ Status(n)' = "UNKNOWN"
                /\ StarterSettles(n, "rejected")
          /\ ~FeatureRegistryHas(features', n) =>
                /\ Status(n)' \in {"UNKNOWN", "LOADING"}
                /\ loaderCalls'[n] = 0
                /\ Status(n)' = "LOADING" =>
                      /\ promises'[loadingFeatures'[n]].st = "rejected"
                      /\ promises'[loadingFeatures'[n]].val.kind = "notFound"]_vars

\* 'auth' is LOADED, 'user' is REGISTERED after a failed load, and the
\* unregistered 'chat' is LOADING.
C16_Witness ==
    /\ Status("auth") = "LOADED"
    /\ Status("user") = "REGISTERED"
    /\ ~FeatureRegistryHas(features, "chat") /\ Status("chat") = "LOADING"

\* The registry methods and introspection functions of the claim.
ProbeOps ==
    {"register", "get", "has", "getAll", "getAllMetadata", "getByTag",
     "isFeatureLoaded", "getLoadedFeatures", "getRegisteredFeatures",
     "getFeatureMetadata", "getFeatureStats"}

\* C17: a call of a registry method (register, get, has, getAll,
\* getAllMetadata, getByTag) or of an introspection function of the
\* manager (isFeatureLoaded, getLoadedFeatures, getRegisteredFeatures,
\* getFeatureMetadata, getFeatureStats) invokes no loader, starts no
\* load, queues no job and leaves loadedFeatures, loadingFeatures and the
\* container unchanged, whether or not loads are in flight; all but
\* register leave the registry unchanged too.
C17_IntrospectionFrame ==
    [][\A op \in ProbeOps : ProbeStep(op) =>
          /\ loaderCalls' = loaderCalls
          /\ registerCalls' = registerCalls
          /\ loadedFeatures' = loadedFeatures
          /\ loadingFeatures' = loadingFeatures
          /\ container' = container
          /\ promises' = promises
          /\ microtasks' = microtasks
          /\ op # "register" => features' = features]_vars

\* getFeatureStats() was called while 'user' was loading, 'auth' already
\* loaded: it reported 'user' as not loaded and the load stayed in flight.
C17_Witness ==
    /\ lastCall.op = "getFeatureStats"
    /\ lastCall.ret.notLoaded = <<"user">>
    /\ lastCall.ret.loadedList = {"auth"}
    /\ loadingFeatures["user"] # 0
    /\ \E p \in LoaderIds("user") : ~Settled(p)

\* The call that started the load with promise l.
StarterOf(l) ==
    CHOOSE q \in Ids : /\ promises[q].kind = "ensure" /\ promises[q].how = "start"
                       /\ promises[q].ep = l

\* How many ensureFeatureLoaded calls were active when call p was made.
RECURSIVE NestingOf(_)
NestingOf(p) ==
    IF promises[p].parent = 0 THEN 0
    ELSE 1 + NestingOf(StarterOf(promises[p].parent))

\* C18: with features A and B that depend on each other, no nested
\* ensureFeatureLoaded call finds its name loaded or loading: each starts
\* another loadFeature call, which makes the next nested call, and the
\* recursion ends only where the call stack is exhausted; no loader and
\* no register of the cycle is ever invoked, neither name is ever in
\* loadedFeatures, no call is ever fulfilled, and the only error raised
\* is the stack's RangeError (no circular-dependency error).
C18_CycleRecursion ==
    /\ \A n \in CycleNames :
          loaderCalls[n] = 0 /\ registerCalls[n] = 0 /\ n \notin loadedFeatures
    /\ \A p \in Ids : promises[p].kind = "ensure" =>
          /\ promises[p].parent # 0 => promises[p].how \in {"start", "overflow"}
          /\ NestingOf(p) <= MaxDepth
          /\ promises[p].how = "overflow" => NestingOf(p) = MaxDepth
          /\ ~Fulfilled(p)
          /\ Rejected(p) => promises[p].val.kind = "stackOverflow"
          /\ Idle => Settled(p)
    /\ \A l \in Ids : promises[l].kind = "load" =>
          \/ CallsOf(l) # {}
          \/ /\ Rejected(l)
             /\ promises[l].val = StackError(promises[l].name, l)
             /\ NestingOf(StarterOf(l)) = MaxDepth

\* ensureFeatureLoaded('A') recursed through B to a nested call for A,
\* which started a further load of A, and was in the end rejected with
\* the RangeError; no loader ran.
C18_Witness ==
    \E p, q \in EnsureIds("A") :
        /\ External(p) /\ promises[p].how = "start" /\ Rejected(p)
        /\ promises[p].val.kind = "stackOverflow"
        /\ promises[q].how = "start" /\ NestingOf(q) = 2
        /\ Cardinality(LoadIds("A")) >= 2
        /\ loaderCalls["A"] = 0 /\ loaderCalls["B"] = 0
        /\ Idle


\* ---------------------------------------------------------------- C19
\* The step in which loadService resumes after its await.
LoadServiceStep == JobReady("hookAwait") /\ microtasks' = Tail(microtasks)

\* The effect run whose loadService is about to resume.
ResumedEffect == effects[Head(microtasks).r.i]

\* Effect run i is the live one: the component is mounted with the pair
\* the run was started for, and no later run exists.
LiveEffect(i) ==
    /\ props.mounted
    /\ i = Len(effects)
    /\ effects[i].featureName = props.featureName
    /\ effects[i].serviceType = props.serviceType

\* C19: useFeatureService never updates its state from a load whose effect
\* has been cleaned up.  After an unmount or a change of the pair the
\* earlier effect run is cleaned up, and a load of a cleaned-up run that
\* resumes, fulfilled or rejected, leaves the state as it was; the state
\* is only ever written by a mount or by the load of the live run.
C19_NoUpdateAfterCleanup ==
    [][ /\ \A i \in DOMAIN effects' : effects'[i].isMounted => LiveEffect(i)'
        /\ (LoadServiceStep /\ ~ResumedEffect.isMounted) => hookState' = hookState
        /\ hookState' # hookState =>
              \/ ~props.mounted /\ hookState' = InitialHookState
              \/ /\ LoadServiceStep
                 /\ LiveEffect(Head(microtasks).r.i)
                 /\ hookState'.by = Head(microtasks).r.i ]_vars

\* The pair changed while the first load was in flight; the first load
\* then fulfilled and its loadService resumed, and the state still is
\* the initial one.
C19_Witness ==
    /\ Len(effects) = 2
    /\ props.mounted
    /\ ~effects[1].isMounted
    /\ effects[1].featureName # effects[2].featureName
    /\ Fulfilled(effects[1].p)
    /\ ~\E j \in DOMAIN microtasks : microtasks[j].r.k = "hookAwait"
    /\ ~Settled(effects[2].p)
    /\ hookState = InitialHookState

\* ---------------------------------------------------------------- C20
\* loadService resumes in the live effect run with a rejected load.
LoadRejectedStep ==
    /\ LoadServiceStep
    /\ ~Head(microtasks).ok
    /\ ResumedEffect.isMounted

\* C20, as stated: when the load rejects, the error field holds the very
\* value the load rejected with, service is null and isLoading is false.
C20_ExactFailureValue ==
    [][ LoadRejectedStep =>
          /\ hookState'.error = Head(microtasks).val
          /\ hookState'.service = "null"
          /\ hookState'.isLoading = FALSE ]_vars

\* C20, amended: the error field holds the very value the load rejected
\* with when that value is an Error instance; a value that is not an
\* Error instance is replaced by a new Error made from its string form.
\* In both cases service is null and isLoading is false.
C20_FailureValueNormalised ==
    [][ LoadRejectedStep =>
          /\ IsErrorInstance(Head(microtasks).val) =>
                hookState'.error = Head(microtasks).val
          /\ ~IsErrorInstance(Head(microtasks).val) =>
                /\ hookState'.error # Head(microtasks).val
                /\ hookState'.error.kind = "stringified"
                /\ hookState'.error.feature = Head(microtasks).val.feature
          /\ hookState'.service = "null"
          /\ hookState'.isLoading = FALSE ]_vars

\* The live load rejected with the loader's Error and the state shows
\* that very value.
C20_Witness ==
    /\ props.mounted
    /\ hookState.by = Len(effects)
    /\ Rejected(effects[hookState.by].p)
    /\ hookState.error = promises[effects[hookState.by].p].val
    /\ hookState.error.kind = "loaderError"
    /\ hookState.service = "null"
    /\ ~hookState.isLoading

\* ---------------------------------------------------------------- C21
\* The component is rendered with a pair it did not have before the step:
\* it mounts, or its pair changes.
PairChangeStep ==
    /\ props'.mounted
    /\ \/ ~props.mounted
       \/ <<props'.featureName, props'.serviceType>> #
            <<props.featureName, props.serviceType>>

\* C21: useFeatureService calls ensureFeatureLoaded exactly once on mount
\* and exactly once for each change of the pair, for the new feature
\* name, and in no other step: not on a render with the same pair and
\* not when its own load resumes and updates the state.
C21_OneEnsurePerPairChange ==
    [][ /\ PairChangeStep =>
              /\ Len(calls') = Len(calls) + 1
              /\ promises'[calls'[Len(calls')]].name = props'.featureName
              /\ Len(effects') = Len(effects) + 1
        /\ ~PairChangeStep =>
              /\ calls' = calls
              /\ Len(effects') = Len(effects) ]_vars

\* The load of the only effect run has updated the state, the component
\* was rendered again with the same pair, and still one call was made.
C21_Witness ==
    /\ lastCall.op = "render"
    /\ hookState.by = 1
    /\ Len(calls) = 1
    /\ Len(effects) = 1

\* ---------------------------------------------------------------- C22
\* The three cases of UseFeatureServiceState.
StillLoading(hs) == hs.isLoading /\ hs.service = "null" /\ hs.error = NullError
Ready(hs) == ~hs.isLoading /\ hs.service # "null" /\ hs.error = NullError
Failed(hs) == ~hs.isLoading /\ hs.service = "null" /\ hs.error # NullError

\* loadService resumes in the live effect run after the feature loaded,
\* and the requested service key is not bound in the container.
LoadedUnboundStep ==
    /\ LoadServiceStep
    /\ Head(microtasks).ok
    /\ ResumedEffect.isMounted
    /\ ResumedEffect.serviceType \notin container

\* C22: the state of useFeatureService is always exactly one of still
\* loading, ready and failed (the three exclude one another, so a service
\* and an error are never exposed together), and a feature that loaded
\* without binding the requested service key gives the failed case.
C22_ThreeCases ==
    /\ [](StillLoading(hookState) \/ Ready(hookState) \/ Failed(hookState))
    /\ [][ LoadedUnboundStep =>
              /\ Failed(hookState')
              /\ hookState'.error = ServiceNotFound(ResumedEffect.featureName) ]_vars

\* The user feature is loaded, its module does not bind the requested
\* key, and the hook shows the failure.
C22_Witness ==
    /\ props.mounted
    /\ props.serviceType = "other"
    /\ props.featureName \in loadedFeatures
    /\ hookState.by = Len(effects)
    /\ Failed(hookState)
    /\ hookState.error.kind = "serviceNotFound"

\* ---------------------------------------------------------------- C23
\* register(container) of a completed before that of b.
RegisteredBefore(a, b) ==
    \E i, j \in DOMAIN registerLog :
        i < j /\ registerLog[i] = a /\ registerLog[j] = b

\* C23: on the application's registry, as long as no load has failed, the
\* loader and the register of each of auth, user, admin and chat are
\* invoked at most once, however many loads of dependants are in flight;
\* and once preloadFeatures(['user','admin','chat']) is fulfilled each of
\* the four has been invoked exactly once, auth registered before user
\* and admin, and user before chat.
C23_SharedDependencyOnce ==
    (\A p \in Ids : ~Rejected(p)) =>
        /\ \A n \in AppNames : loaderCalls[n] <= 1 /\ registerCalls[n] <= 1
        /\ \A pp \in Ids : (promises[pp].kind = "preload" /\ Fulfilled(pp)) =>
              /\ \A n \in AppNames : loaderCalls[n] = 1 /\ registerCalls[n] = 1
              /\ RegisteredBefore("auth", "user")
              /\ RegisteredBefore("auth", "admin")
              /\ RegisteredBefore("user", "chat")

\* The preload from a cold start is fulfilled; admin was registered
\* after chat.
C23_Witness ==
    /\ \E pp \in Ids : promises[pp].kind = "preload" /\ External(pp) /\ Fulfilled(pp)
    /\ \A p \in Ids : ~Rejected(p)
    /\ loadedFeatures = AppNames
    /\ RegisteredBefore("chat", "admin")

\* ---------------------------------------------------------------- C24
\* C24: a loadFeature call of a feature with dependencies has called
\* ensureFeatureLoaded on every one of them by its first suspension, so
\* from then on every dependency has had its loader invoked, whatever the
\* state of its siblings; and the loader of the feature itself has been
\* invoked for a load only when all the dependency calls of that load
\* are fulfilled.
C24_DependenciesConcurrent ==
    \A n \in DepsNames : \A l \in LoadIds(n) :
        /\ \A d \in DepsOf(n) :
              /\ \E c \in CallsOf(l) : promises[c].name = d
              /\ loaderCalls[d] >= 1
        /\ (\E q \in LoaderIds(n) : promises[q].ep = l) =>
              \A c \in CallsOf(l) : Fulfilled(c)

\* billing's load is in flight, the loader of 'auth' has not settled,
\* and the sibling dependency 'notifications' is loaded all the same.
C24_Witness ==
    /\ loadingFeatures["billing"] # 0
    /\ \E q \in LoaderIds("auth") : ~Settled(q)
    /\ "notifications" \in loadedFeatures
    /\ loaderCalls["billing"] = 0

\* ---------------------------------------------------------------- C25
\* The load episodes of n that have not settled.
Unsettled(n) == {l \in LoadIds(n) : ~Settled(l)}

\* C25: between any two steps a load episode that has not settled is the
\* loadingFeatures entry of its name, so there is at most one per name;
\* and an ensureFeatureLoaded call made while an episode of its name is
\* unsettled is resolved with that episode's promise and starts no
\* loadFeature call for the name.
C25_EntryBeforeAwait ==
    /\ [](\A n \in Names : \A l \in Unsettled(n) : loadingFeatures[n] = l)
    /\ [][\A n \in Names : \A l \in Unsettled(n) :
            /\ LoadIds(n)' = LoadIds(n)
            /\ \A p \in EnsureIds(n)' \ EnsureIds(n) :
                  /\ promises'[p].how = "join"
                  /\ promises'[p].ep = l]_vars

\* A call joined the unsettled episode of 'user', whose own call is
\* still pending.
C25_Witness ==
    \E p, q \in EnsureIds("user") :
        /\ promises[p].how = "start" /\ promises[q].how = "join"
        /\ External(q)
        /\ promises[q].ep = promises[p].ep
        /\ Unsettled("user") = {promises[p].ep}
        /\ loaderCalls["user"] = 1

\* ---------------------------------------------------------------- C26
\* The step is a caller's ensureFeatureLoaded call.
EnsureCallStep == Len(calls') = Len(calls) + 1

\* C26: resetFeatureManager leaves loadedFeatures and loadingFeatures
\* empty, so that isFeatureLoaded is false for every name, and leaves the
\* registry, the container's bindings and the modules' flags as they
\* were; an ensureFeatureLoaded call made when its name is neither loaded
\* nor in flight, as after a reset, starts a new episode whose loader is
\* invoked, and every episode that is fulfilled has invoked the module's
\* register.
C26_ResetClearsTracking ==
    /\ [][lastCall'.op = "reset" =>
            /\ loadedFeatures' = {}
            /\ \A n \in Names : loadingFeatures'[n] = 0 /\ ~IsLoaded(St', n)
            /\ features' = features
            /\ container' = container
            /\ isRegistered' = isRegistered
            /\ bindCalls' = bindCalls]_vars
    /\ [][\A n \in ResetNames :
            (/\ EnsureCallStep
             /\ promises'[NewCall].name = n
             /\ n \notin loadedFeatures
             /\ loadingFeatures[n] = 0) =>
                /\ promises'[NewCall].how = "start"
                /\ Cardinality(LoadIds(n)') = Cardinality(LoadIds(n)) + 1
                /\ loaderCalls'[n] = loaderCalls[n] + 1
                /\ loadingFeatures'[n] = promises'[NewCall].ep]_vars
    /\ [](\A n \in ResetNames :
            registerCalls[n] >= Cardinality({l \in LoadIds(n) : Fulfilled(l)}))

\* 'auth' was loaded, the manager was reset, and a new call loaded it
\* again: loader and register ran twice, the container was bound once.
C26_Witness ==
    /\ Cardinality({l \in LoadIds("auth") : Fulfilled(l)}) = 2
    /\ Unsettled("auth") = {}
    /\ loaderCalls["auth"] = 2
    /\ registerCalls["auth"] = 2
    /\ "auth" \in loadedFeatures
    /\ container = {"auth"}

\* ---------------------------------------------------------------- C27
\* C27: every service key is bound at most once; an invocation of a
\* feature module's register function whose flag is already set, by the
\* manager after a reset or after a navigator's direct call, or by a
\* navigator after the manager's, completes without binding anything and
\* without changing the container or the flag.
C27_RegisterIdempotent ==
    /\ [](\A n \in ResetNames :
            /\ bindCalls[n] <= 1
            /\ (n \in container) = (bindCalls[n] = 1)
            /\ (n \in isRegistered) = (registerCalls[n] >= 1))
    /\ [][\A n \in ResetNames :
            (registerCalls'[n] > registerCalls[n] /\ n \in isRegistered) =>
                /\ registerCalls'[n] = registerCalls[n] + 1
                /\ registerLog' = Append(registerLog, n)
                /\ container' = container
                /\ bindCalls' = bindCalls
                /\ isRegistered' = isRegistered
                /\ \A p \in DOMAIN promises' : promises'[p].val.kind # "registerError"]_vars

\* A navigator registered the auth module itself, then the manager
\* loaded 'auth' and invoked register a second time: one binding.
C27_Witness ==
    /\ registerLog = <<"auth", "auth">>
    /\ loaderCalls["auth"] = 1
    /\ "auth" \in loadedFeatures
    /\ bindCalls["auth"] = 1
    /\ lastCall.op # "moduleRegister"

\* ---------------------------------------------------------------- C28
\* Every promise an ensureFeatureLoaded or preloadFeatures call returned
\* is settled and loadingFeatures is empty.
AllCallsSettled ==
    /\ \A p \in Ids : promises[p].kind \in {"ensure", "preload"} => Settled(p)
    /\ \A n \in AppNames : loadingFeatures[n] = 0

\* C28: on the application's acyclic registry, when every loader()
\* invocation eventually settles, whenever a call is pending or
\* loadingFeatures has an entry, eventually every ensureFeatureLoaded and
\* preloadFeatures call is settled and loadingFeatures is empty.
C28_EverythingSettles == (~AllCallsSettled) ~> AllCallsSettled

\* The loader of 'auth' failed: the preload and all the calls it made
\* were rejected, nothing is loaded and nothing is in flight.
C28_Witness ==
    /\ \E pp \in Ids : promises[pp].kind = "preload" /\ Rejected(pp)
    /\ \A p \in Ids : promises[p].kind = "ensure" => Rejected(p)
    /\ AllCallsSettled
    /\ loadedFeatures = {}
    /\ loaderCalls["auth"] = 1

\* ---------------------------------------------------------------- C29
\* ensureFeatureLoaded resumes after `await loadPromise` in this step, for
\* an episode that is no longer the loadingFeatures entry of its name:
\* resetFeatureManager was called while the episode was in flight.
StaleEpisodeResumes ==
    /\ JobReady("ensureAwait")
    /\ Settles(Head(microtasks).r.p)
    /\ loadingFeatures[Head(microtasks).r.name] # Head(microtasks).r.i

\* C29: an episode that was in flight when resetFeatureManager was called
\* changes neither loadedFeatures nor loadingFeatures when it settles: it
\* does not add its name to loadedFeatures and does not delete the entry
\* of a newer episode.
C29_StaleEpisodeHarmless ==
    [][StaleEpisodeResumes =>
          /\ loadedFeatures' = loadedFeatures
          /\ loadingFeatures' = loadingFeatures]_vars

\* ---------------------------------------------------------------- C30
\* C30: while the component is mounted and the ensureFeatureLoaded call
\* of the effect run for its current pair has not settled, the hook's
\* state is the loading one: isLoading true, no service, and no error or
\* service left from a previous pair.
C30_LoadingWhileUnsettled ==
    (props.mounted /\ ~Settled(effects[Len(effects)].p)) => StillLoading(hookState)
====
